---- MODULE Spec2Model ----
(***************************************************************************)
(* The payment reconstruction engine of osp-github-reporter:               *)
(* reconstruct_payments (src/report.py:162-254), which replays a sponsor's *)
(* event log day by day and emits the payments GitHub would have taken.    *)
(*                                                                         *)
(* One run of reconstruct_payments is one behaviour.  The event log is an  *)
(* input: the run reads the bucket of each day exactly once, at line 178,  *)
(* and the buckets of different days are independent, so the model draws a *)
(* day's bucket when the run reads it.  day_to_events_map holds the        *)
(* buckets read so far.                                                    *)
(*                                                                         *)
(* Spec is a run of reconstruct_payments on an already grouped log; it     *)
(* leaves events, the ungrouped list, empty.  GroupSpec is a run of        *)
(* make_day_to_events_map (src/report.py:148-154) on an event list.        *)
(***************************************************************************)
EXTENDS Integers, Sequences, FiniteSets, TLC

VARIABLES
    pc,                           \* position of the run in its function
    events,                       \* argument of make_day_to_events_map
    start_date,                   \* argument
    end_date,                     \* argument
    curr_date,                    \* line 174
    i,                            \* position of the running for loop in todays_events
    day_to_events_map,            \* line 166, the buckets read so far
    payments,                     \* line 163
    payment_monthday,             \* line 164
    payment_login_to_amount_map,  \* line 165
    raised,                       \* the exception that ended the run, if any
    result,                       \* what the caller receives (line 254)
    active_at_day_start           \* history: the logins active when the day began

vars == <<pc, events, start_date, end_date, curr_date, i, day_to_events_map, payments,
          payment_monthday, payment_login_to_amount_map, raised, result,
          active_at_day_start>>

(***************************************************************************)
(* Bounds of the model.                                                    *)
(***************************************************************************)
\* Days of a long month; a short month has one day less.
LongMonth == 2
\* Months the longest date range covers.
NumMonths == 3
\* Events of the log inside the date range, an event outside the subscription
\* lifecycle (see RareEvents) counting for two.
MaxEvents == 4
\* Events of the log on one calendar day.
MaxPerDay == 2

(***************************************************************************)
(* Python's None and optional values: <<>> is None, <<x>> is the value x.  *)
(***************************************************************************)
None == <<>>
Some(x) == <<x>>

(***************************************************************************)
(* Calendar (arrow).  A date is the ordinal of its day, counted from the   *)
(* first day of month 1.  Months alternate between LongMonth and           *)
(* LongMonth - 1 days, as the Gregorian months alternate in length.        *)
(***************************************************************************)
MonthLen(m) == IF m % 2 = 1 THEN LongMonth ELSE LongMonth - 1

RECURSIVE DaysBefore(_)
DaysBefore(m) == IF m <= 1 THEN 0 ELSE DaysBefore(m - 1) + MonthLen(m - 1)

LastDate == DaysBefore(NumMonths + 1)

MonthOf(date) ==
    CHOOSE m \in 0..(NumMonths + 1) :
        IF date <= 0 THEN m = 0
        ELSE m >= 1 /\ DaysBefore(m) < date /\ date <= DaysBefore(m + 1)

\* curr_date.day
Day(date) == IF date <= 0 THEN LongMonth + date ELSE date - DaysBefore(MonthOf(date))

\* curr_date.format('YYYY-MM-DD')
FormatDay(date) == <<MonthOf(date), Day(date)>>

\* curr_date.shift(days=+1)
ShiftDay(date) == date + 1

(***************************************************************************)
(* Events of the log: a node of the GraphQL query (lines 34-53).           *)
(***************************************************************************)
Tier(price, one_time) == [monthlyPriceInCents |-> price, isOneTime |-> one_time]

Event(action, login, tier) ==
    [action |-> action, login |-> login, sponsorsTier |-> tier]

Recurring(price) == Some(Tier(price, FALSE))
OneTime(price) == Some(Tier(price, TRUE))

\* The subscription lifecycle: signup, cancellation and tier change.
CoreEvents ==
    {Event("NEW_SPONSORSHIP", "alice", Recurring(500)),
     Event("NEW_SPONSORSHIP", "bob", Recurring(300)),
     Event("CANCELLED_SPONSORSHIP", "alice", None),
     Event("TIER_CHANGE", "alice", Recurring(700)),
     Event("TIER_CHANGE", "alice", OneTime(1000))}

\* The other events: one-time signups, refunds, the actions the engine
\* ignores, events without a tier (sponsorsTier is None), and OTHER_ACTION,
\* which stands for an action no case of the match statements names.
RareEvents ==
    {Event("NEW_SPONSORSHIP", "alice", OneTime(1000)),
     Event("NEW_SPONSORSHIP", "alice", None),
     Event("TIER_CHANGE", "alice", None),
     Event("REFUND", "alice", Recurring(500)),
     Event("REFUND", "alice", None),
     Event("PENDING_CHANGE", "alice", None),
     Event("SPONSOR_MATCH_DISABLED", "alice", None),
     Event("OTHER_ACTION", "alice", None)}

EventAlphabet == CoreEvents \cup RareEvents

(***************************************************************************)
(* The buckets of the log (make_day_to_events_map, lines 148-154).         *)
(***************************************************************************)
\* The places <<day, position>> of the events read so far.
EventsRead ==
    {x \in (DOMAIN day_to_events_map) \X (1..MaxPerDay) :
        x[2] <= Len(day_to_events_map[x[1]])}

RareRead == {x \in EventsRead : day_to_events_map[x[1]][x[2]] \in RareEvents}

RareIn(bucket) == {k \in DOMAIN bucket : bucket[k] \in RareEvents}

\* The buckets a day of the log may hold.
Buckets ==
    {bucket \in UNION {[1..n -> EventAlphabet] : n \in 0..MaxPerDay} :
        Cardinality(EventsRead) + Cardinality(RareRead)
            + Len(bucket) + Cardinality(RareIn(bucket)) <= MaxEvents}

formatted_day == FormatDay(curr_date)

monthday == Day(curr_date)

todays_events == day_to_events_map[formatted_day]

(***************************************************************************)
(* payment_login_to_amount_map: a Python dict, which keeps its keys in     *)
(* insertion order.  A sequence of <<login, amount>> with distinct logins. *)
(***************************************************************************)
Keys(m) == {m[k][1] : k \in DOMAIN m}

Get(m, login) == (CHOOSE k \in DOMAIN m : m[k][1] = login)

\* m[login] = amount
SetItem(m, login, amount) ==
    IF login \in Keys(m)
    THEN [m EXCEPT ![Get(m, login)] = <<login, amount>>]
    ELSE Append(m, <<login, amount>>)

\* del m[login], for a login in m
DelItem(m, login) ==
    LET k == Get(m, login)
    IN SubSeq(m, 1, k - 1) \o SubSeq(m, k + 1, Len(m))

Payment(date, login, amount) ==
    [date |-> date, login |-> login, amount_in_cents |-> amount]

(***************************************************************************)
(* The state after lines 163-174.                                          *)
(***************************************************************************)
Init ==
    /\ events = <<>>
    /\ start_date \in {1, LastDate}
    /\ end_date \in {1, LastDate}
    /\ curr_date = start_date
    /\ pc = "loop"
    /\ i = 1
    /\ day_to_events_map = <<>>
    /\ payments = <<>>
    /\ payment_monthday = None
    /\ payment_login_to_amount_map = <<>>
    /\ raised = None
    /\ result = None
    /\ active_at_day_start = {}

\* An exception leaves reconstruct_payments: nothing is returned.
Raise(exception) ==
    /\ pc' = "raised"
    /\ raised' = Some(exception)
    /\ UNCHANGED <<events, start_date, end_date, curr_date, i, day_to_events_map,
                   payments, payment_monthday, payment_login_to_amount_map,
                   result, active_at_day_start>>

\* The for loop goes on to its next event.
NextEvent ==
    /\ i' = i + 1
    /\ UNCHANGED <<pc, events, start_date, end_date, curr_date, day_to_events_map,
                   raised, result, active_at_day_start>>

\* remove_sponsorship that leaves the anchor as it is.
RemoveKeepsAnchor(login) ==
    /\ payment_login_to_amount_map' = DelItem(payment_login_to_amount_map, login)
    /\ payment_monthday' = payment_monthday

\* The map and the anchor after remove_sponsorship(login), login in the map
\* (lines 168-172).
remove_sponsorship(login) ==
    LET m == DelItem(payment_login_to_amount_map, login)
    IN /\ payment_login_to_amount_map' = m
       /\ payment_monthday' = IF Len(m) = 0 THEN None ELSE payment_monthday

(***************************************************************************)
(* The while loop, lines 175-178 and 252-254.                              *)
(***************************************************************************)
\* The loop test passes for date: lines 176-178 read the day's bucket.
EnterDay(date) ==
    /\ date <= end_date
    /\ curr_date' = date
    /\ \E bucket \in Buckets :
           day_to_events_map' =
               [d \in DOMAIN day_to_events_map \cup {FormatDay(date)} |->
                   IF d = FormatDay(date) THEN bucket ELSE day_to_events_map[d]]
    /\ pc' = "stepA"
    /\ i' = 1
    /\ active_at_day_start' = Keys(payment_login_to_amount_map)
    /\ UNCHANGED <<events, start_date, end_date, payments, payment_monthday,
                   payment_login_to_amount_map, raised, result>>

\* The loop test fails for date: line 254 returns the ledger.
LeaveLoop(date) ==
    /\ ~(date <= end_date)
    /\ curr_date' = date
    /\ pc' = "done"
    /\ result' = Some(payments)
    /\ UNCHANGED <<events, start_date, end_date, i, day_to_events_map, payments,
                   payment_monthday, payment_login_to_amount_map, raised,
                   active_at_day_start>>

\* The first test of the loop.
BeginDay ==
    /\ pc = "loop"
    /\ EnterDay(curr_date)

\* An empty date range is refused.
ReturnRefusesRange ==
    /\ pc = "loop"
    /\ ~(curr_date <= end_date)
    /\ Raise("ValueError")

Return ==
    /\ pc = "loop"
    /\ LeaveLoop(curr_date)

\* Line 252 and the next test of the loop.
NextDay ==
    /\ pc = "stepC"
    /\ i > Len(todays_events)
    /\ EnterDay(ShiftDay(curr_date))

LastDay ==
    /\ pc = "stepC"
    /\ i > Len(todays_events)
    /\ LeaveLoop(ShiftDay(curr_date))

(***************************************************************************)
(* The first for loop, lines 180-226.                                      *)
(***************************************************************************)
InStepA(action) ==
    /\ pc = "stepA"
    /\ i <= Len(todays_events)
    /\ todays_events[i].action = action

\* A cancellation that ignores a login the map does not hold
\* (payment_login_to_amount_map.pop(login, None)).
CancelIgnoresMissing ==
    /\ InStepA("CANCELLED_SPONSORSHIP")
    /\ LET login == todays_events[i].login
       IN IF login \notin Keys(payment_login_to_amount_map)
          THEN /\ NextEvent
               /\ UNCHANGED <<payments, payment_monthday,
                              payment_login_to_amount_map>>
          ELSE /\ remove_sponsorship(login)
               /\ NextEvent
               /\ UNCHANGED payments

CancelledSponsorship ==
    /\ InStepA("CANCELLED_SPONSORSHIP")
    /\ LET login == todays_events[i].login
       IN IF login \notin Keys(payment_login_to_amount_map)
          THEN Raise("KeyError")
          ELSE /\ remove_sponsorship(login)
               /\ NextEvent
               /\ UNCHANGED payments

PendingChange ==
    /\ InStepA("PENDING_CHANGE")
    /\ NextEvent
    /\ UNCHANGED <<payments, payment_monthday, payment_login_to_amount_map>>

SponsorMatchDisabled ==
    /\ InStepA("SPONSOR_MATCH_DISABLED")
    /\ NextEvent
    /\ UNCHANGED <<payments, payment_monthday, payment_login_to_amount_map>>

TierChange ==
    /\ InStepA("TIER_CHANGE")
    /\ LET event == todays_events[i]
           login == event.login
       IN IF event.sponsorsTier = None
          THEN Raise("TypeError")
          ELSE LET monthly_price_in_cents == event.sponsorsTier[1].monthlyPriceInCents
                   is_one_time == event.sponsorsTier[1].isOneTime
               IN IF is_one_time
                  THEN IF login \notin Keys(payment_login_to_amount_map)
                       THEN Raise("KeyError")
                       ELSE /\ remove_sponsorship(login)
                            /\ payments' = Append(payments,
                                   Payment(formatted_day, login, monthly_price_in_cents))
                            /\ NextEvent
                  ELSE /\ payment_login_to_amount_map' =
                              SetItem(payment_login_to_amount_map, login,
                                      monthly_price_in_cents)
                       /\ NextEvent
                       /\ UNCHANGED <<payments, payment_monthday>>

\* A refund that takes a missing tier for a price of 0.
RefundWithoutTier ==
    /\ InStepA("REFUND")
    /\ LET event == todays_events[i]
           price == IF event.sponsorsTier = None THEN 0
                    ELSE event.sponsorsTier[1].monthlyPriceInCents
       IN /\ payments' = Append(payments,
                 Payment(formatted_day, event.login, 0 - price))
          /\ NextEvent
          /\ UNCHANGED <<payment_monthday, payment_login_to_amount_map>>

\* A refund that also ends the subscription of its login.
RefundCancels ==
    /\ InStepA("REFUND")
    /\ LET event == todays_events[i]
       IN IF event.sponsorsTier = None
          THEN Raise("TypeError")
          ELSE /\ payments' = Append(payments,
                      Payment(formatted_day, event.login,
                              0 - event.sponsorsTier[1].monthlyPriceInCents))
               /\ NextEvent
               /\ IF event.login \in Keys(payment_login_to_amount_map)
                  THEN remove_sponsorship(event.login)
                  ELSE UNCHANGED <<payment_monthday, payment_login_to_amount_map>>

Refund ==
    /\ InStepA("REFUND")
    /\ LET event == todays_events[i]
       IN IF event.sponsorsTier = None
          THEN Raise("TypeError")
          ELSE /\ payments' = Append(payments,
                      Payment(formatted_day, event.login,
                              0 - event.sponsorsTier[1].monthlyPriceInCents))
               /\ NextEvent
               /\ UNCHANGED <<payment_monthday, payment_login_to_amount_map>>

\* No case of the first match statement names the action.
HandledInStepA ==
    {"CANCELLED_SPONSORSHIP", "PENDING_CHANGE", "SPONSOR_MATCH_DISABLED",
     "TIER_CHANGE", "REFUND"}

StepANoCase ==
    /\ pc = "stepA"
    /\ i <= Len(todays_events)
    /\ todays_events[i].action \notin HandledInStepA
    /\ NextEvent
    /\ UNCHANGED <<payments, payment_monthday, payment_login_to_amount_map>>

(***************************************************************************)
(* The scheduled charge, lines 228-234.                                    *)
(***************************************************************************)
ScheduledPayments(m) ==
    [k \in DOMAIN m |-> Payment(formatted_day, m[k][1], m[k][2])]

\* The scheduled charge as if the day's signups were already in the map.
ChargeAfterSignups ==
    /\ pc = "stepA"
    /\ i > Len(todays_events)
    /\ payments' =
           IF Some(monthday) = payment_monthday
           THEN payments
                \o ScheduledPayments(payment_login_to_amount_map)
                \o ScheduledPayments(
                       SelectSeq([k \in DOMAIN todays_events |->
                                    <<todays_events[k].login, 0,
                                      todays_events[k].action>>],
                                 LAMBDA x :
                                    /\ x[3] = "NEW_SPONSORSHIP"
                                    /\ x[1] \notin Keys(payment_login_to_amount_map)))
           ELSE payments
    /\ pc' = "stepC"
    /\ i' = 1
    /\ UNCHANGED <<events, start_date, end_date, curr_date, day_to_events_map,
                   payment_monthday, payment_login_to_amount_map, raised,
                   result, active_at_day_start>>

\* The scheduled charge with the anchor clamped to the last day of a month
\* too short to hold it.
ChargeClampsToMonthEnd ==
    /\ pc = "stepA"
    /\ i > Len(todays_events)
    /\ payments' =
           IF /\ payment_monthday # None
              /\ \/ monthday = payment_monthday[1]
                 \/ /\ monthday = MonthLen(MonthOf(curr_date))
                    /\ monthday < payment_monthday[1]
           THEN payments \o ScheduledPayments(payment_login_to_amount_map)
           ELSE payments
    /\ pc' = "stepC"
    /\ i' = 1
    /\ UNCHANGED <<events, start_date, end_date, curr_date, day_to_events_map,
                   payment_monthday, payment_login_to_amount_map, raised,
                   result, active_at_day_start>>

\* The scheduled charge without the test of the day-of-month: it fires on
\* every day on which an anchor is set.
ChargeEveryDay ==
    /\ pc = "stepA"
    /\ i > Len(todays_events)
    /\ payments' =
           IF payment_monthday # None
           THEN payments \o ScheduledPayments(payment_login_to_amount_map)
           ELSE payments
    /\ pc' = "stepC"
    /\ i' = 1
    /\ UNCHANGED <<events, start_date, end_date, curr_date, day_to_events_map,
                   payment_monthday, payment_login_to_amount_map, raised,
                   result, active_at_day_start>>

\* The scheduled charge emitted ahead of the day's payments of the first
\* loop.
ChargeBeforeStepA ==
    /\ pc = "stepA"
    /\ i > Len(todays_events)
    /\ payments' =
           IF Some(monthday) = payment_monthday
           THEN LET today == SelectSeq(payments, LAMBDA p : p.date = formatted_day)
                IN SubSeq(payments, 1, Len(payments) - Len(today))
                   \o ScheduledPayments(payment_login_to_amount_map)
                   \o today
           ELSE payments
    /\ pc' = "stepC"
    /\ i' = 1
    /\ UNCHANGED <<events, start_date, end_date, curr_date, day_to_events_map,
                   payment_monthday, payment_login_to_amount_map, raised,
                   result, active_at_day_start>>

ScheduledCharge ==
    /\ pc = "stepA"
    /\ i > Len(todays_events)
    /\ payments' =
           IF Some(monthday) = payment_monthday
           THEN payments \o ScheduledPayments(payment_login_to_amount_map)
           ELSE payments
    /\ pc' = "stepC"
    /\ i' = 1
    /\ UNCHANGED <<events, start_date, end_date, curr_date, day_to_events_map,
                   payment_monthday, payment_login_to_amount_map, raised,
                   result, active_at_day_start>>

(***************************************************************************)
(* The second for loop, lines 236-250.                                     *)
(***************************************************************************)
\* Every recurring signup moves the anchor to its own day.
AnchorMovesToSignup == Some(monthday)

\* The anchor after a recurring signup (lines 248-249).
AnchorAfterSignup ==
    IF payment_monthday = None THEN Some(monthday) ELSE payment_monthday

\* A signup that enters the schedule whatever the kind of its tier.
OneTimeSignupRecurs ==
    /\ pc = "stepC"
    /\ i <= Len(todays_events)
    /\ todays_events[i].action = "NEW_SPONSORSHIP"
    /\ LET event == todays_events[i]
           login == event.login
       IN IF event.sponsorsTier = None
          THEN Raise("TypeError")
          ELSE LET monthly_price_in_cents == event.sponsorsTier[1].monthlyPriceInCents
               IN /\ payments' = Append(payments,
                         Payment(formatted_day, login, monthly_price_in_cents))
                  /\ payment_monthday' = AnchorAfterSignup
                  /\ payment_login_to_amount_map' =
                         SetItem(payment_login_to_amount_map, login,
                                 monthly_price_in_cents)
                  /\ NextEvent

NewSponsorship ==
    /\ pc = "stepC"
    /\ i <= Len(todays_events)
    /\ todays_events[i].action = "NEW_SPONSORSHIP"
    /\ LET event == todays_events[i]
           login == event.login
       IN IF event.sponsorsTier = None
          THEN Raise("TypeError")
          ELSE LET monthly_price_in_cents == event.sponsorsTier[1].monthlyPriceInCents
                   is_one_time == event.sponsorsTier[1].isOneTime
               IN /\ payments' = Append(payments,
                         Payment(formatted_day, login, monthly_price_in_cents))
                  /\ IF ~is_one_time
                     THEN /\ payment_monthday' = AnchorAfterSignup
                          /\ payment_login_to_amount_map' =
                                 SetItem(payment_login_to_amount_map, login,
                                         monthly_price_in_cents)
                     ELSE UNCHANGED <<payment_monthday,
                                      payment_login_to_amount_map>>
                  /\ NextEvent

\* The second match statement with a default case that raises.
StepCRejectsUnknown ==
    /\ pc = "stepC"
    /\ i <= Len(todays_events)
    /\ todays_events[i].action # "NEW_SPONSORSHIP"
    /\ IF todays_events[i].action \in HandledInStepA
       THEN /\ NextEvent
            /\ UNCHANGED <<payments, payment_monthday,
                           payment_login_to_amount_map>>
       ELSE Raise("ValueError")

StepCNoCase ==
    /\ pc = "stepC"
    /\ i <= Len(todays_events)
    /\ todays_events[i].action # "NEW_SPONSORSHIP"
    /\ NextEvent
    /\ UNCHANGED <<payments, payment_monthday, payment_login_to_amount_map>>

Next ==
    \/ BeginDay
    \/ Return
    \/ NextDay
    \/ LastDay
    \/ CancelledSponsorship
    \/ PendingChange
    \/ SponsorMatchDisabled
    \/ TierChange
    \/ Refund
    \/ StepANoCase
    \/ ScheduledCharge
    \/ NewSponsorship
    \/ StepCNoCase

Spec == Init /\ [][Next]_vars

(***************************************************************************)
(* make_day_to_events_map, lines 148-154, run on its own.  An event of the *)
(* list carries a timestamp <<date, time of day>>.                         *)
(***************************************************************************)
\* Events of the list.
MaxLog == 3

Times == {"T09:00:00Z", "T17:00:00Z"}

\* The list's events lie on the dates of the first month and the first day
\* of the second.
Timestamps == (1..(LongMonth + 1)) \X Times

LogEvents ==
    {[timestamp |-> t, action |-> "PENDING_CHANGE", login |-> "alice",
      sponsorsTier |-> None] : t \in Timestamps}

\* arrow.get(event['timestamp']).format('YYYY-MM-DD')
DayOfEvent(event) == FormatDay(event.timestamp[1])

\* A bucket assignment that replaces what the day's bucket holds.
BucketOverwritten(m, event) ==
    [d \in DOMAIN m \cup {DayOfEvent(event)} |->
        IF d = DayOfEvent(event) THEN <<event>> ELSE m[d]]

\* day_to_events_map[formatted_day].append(event) on a defaultdict(list)
AppendToBucket(m, event) ==
    [d \in DOMAIN m \cup {DayOfEvent(event)} |->
        IF d = DayOfEvent(event)
        THEN (IF d \in DOMAIN m THEN Append(m[d], event) ELSE <<event>>)
        ELSE m[d]]

GroupInit ==
    /\ events \in UNION {[1..n -> LogEvents] : n \in 0..MaxLog}
    /\ pc = "group"
    /\ i = 1
    /\ day_to_events_map = <<>>
    /\ start_date = 1
    /\ end_date = 1
    /\ curr_date = 1
    /\ payments = <<>>
    /\ payment_monthday = None
    /\ payment_login_to_amount_map = <<>>
    /\ raised = None
    /\ result = None
    /\ active_at_day_start = {}

\* One iteration of the for loop, lines 150-153.
GroupEvent ==
    /\ pc = "group"
    /\ i <= Len(events)
    /\ day_to_events_map' = AppendToBucket(day_to_events_map, events[i])
    /\ i' = i + 1
    /\ UNCHANGED <<pc, events, start_date, end_date, curr_date, payments,
                   payment_monthday, payment_login_to_amount_map, raised,
                   result, active_at_day_start>>

\* Line 154.
GroupReturn ==
    /\ pc = "group"
    /\ i > Len(events)
    /\ pc' = "grouped"
    /\ UNCHANGED <<events, start_date, end_date, curr_date, i,
                   day_to_events_map, payments, payment_monthday,
                   payment_login_to_amount_map, raised, result,
                   active_at_day_start>>

GroupNext ==
    \/ GroupEvent
    \/ GroupReturn

GroupSpec == GroupInit /\ [][GroupNext]_vars

(***************************************************************************)
(* The log as the run has read it, for the properties below.               *)
(***************************************************************************)
ReadDates == {d \in 1..LastDate : FormatDay(d) \in DOMAIN day_to_events_map}

EventsOn(d) == day_to_events_map[FormatDay(d)]

\* The places <<date, position>> of the events read so far.
Places == {x \in ReadDates \X (1..(MaxPerDay + 1)) : x[2] <= Len(EventsOn(x[1]))}

EventAt(x) == EventsOn(x[1])[x[2]]

HasRecurringTier(e) == e.sponsorsTier # None /\ ~e.sponsorsTier[1].isOneTime

HasOneTimeTier(e) == e.sponsorsTier # None /\ e.sponsorsTier[1].isOneTime

IsSignup(e) == e.action = "NEW_SPONSORSHIP" /\ HasRecurringTier(e)

IsCancel(e) == e.action = "CANCELLED_SPONSORSHIP"

IsOneTimeChange(e) == e.action = "TIER_CHANGE" /\ HasOneTimeTier(e)

IsRemoval(e) == IsCancel(e) \/ IsOneTimeChange(e)

\* The order in which a run handles the events: by day, within a day the
\* first loop (all but signups) before the second (signups), within a loop
\* the order of the log.
Loop(x) == IF EventAt(x).action = "NEW_SPONSORSHIP" THEN 2 ELSE 1

HandledBefore(x, y) ==
    \/ x[1] < y[1]
    \/ x[1] = y[1] /\ Loop(x) < Loop(y)
    \/ x[1] = y[1] /\ Loop(x) = Loop(y) /\ x[2] < y[2]

\* The logins the scheduled charge of this step charges.
Charged == {payments'[k].login : k \in (Len(payments) + 1)..Len(payments')}

\* The payments of the ledger for a login on a day.
PaymentsFor(day, login) ==
    {k \in DOMAIN payments : payments[k].date = day /\ payments[k].login = login}

\* Two recurring signups for different logins, the second on a later day,
\* the first not cancelled (nor moved to a one-time tier) in between.
SignupPair(x, y) ==
    /\ IsSignup(EventAt(x))
    /\ IsSignup(EventAt(y))
    /\ EventAt(x).login # EventAt(y).login
    /\ x[1] < y[1]
    /\ \A z \in Places :
           (IsRemoval(EventAt(z)) /\ EventAt(z).login = EventAt(x).login)
               => ~(x[1] < z[1] /\ z[1] <= y[1])

(***************************************************************************)
(* C1, as stated: for any two recurring NEW_SPONSORSHIP events for         *)
(* different logins on different days (the first not cancelled in          *)
(* between), every later scheduled charge for either login falls on the    *)
(* day-of-month of the first signup.                                       *)
(***************************************************************************)
C1_AnyTwoSignups ==
    [][ScheduledCharge =>
          \A x, y \in Places :
              (/\ SignupPair(x, y)
               /\ y[1] < curr_date
               /\ {EventAt(x).login, EventAt(y).login} \cap Charged # {})
                  => monthday = Day(x[1])]_vars

\* The first signup is the first recurring signup of the log, and its login
\* is not removed (cancelled, or moved to a one-time tier) up to the date.
FirstSignupStillActive(x, date) ==
    /\ \A z \in Places : IsSignup(EventAt(z)) => ~(z[1] < x[1])
    /\ \A z \in Places :
           (IsRemoval(EventAt(z)) /\ EventAt(z).login = EventAt(x).login)
               => ~(x[1] < z[1] /\ z[1] <= date)

(***************************************************************************)
(* C1, amended: for two recurring NEW_SPONSORSHIP events for different     *)
(* logins on different days, the first being the first recurring signup of *)
(* the log and its login not removed since, every later scheduled charge   *)
(* for either login falls on the day-of-month of the first signup, never   *)
(* on that of the second when the two differ.                              *)
(***************************************************************************)
C1_SharedAnchor ==
    [][ScheduledCharge =>
          \A x, y \in Places :
              (/\ SignupPair(x, y)
               /\ FirstSignupStillActive(x, curr_date)
               /\ y[1] < curr_date
               /\ {EventAt(x).login, EventAt(y).login} \cap Charged # {})
                  => /\ monthday = Day(x[1])
                     /\ Day(x[1]) # Day(y[1]) => monthday # Day(y[1])]_vars

\* Both logins of a pair with different days-of-month have been charged on
\* a later day.
C1_Witness ==
    \E x, y \in Places :
        /\ SignupPair(x, y)
        /\ FirstSignupStillActive(x, curr_date)
        /\ Day(x[1]) # Day(y[1])
        /\ \E d \in ReadDates :
              /\ y[1] < d
              /\ PaymentsFor(FormatDay(d), EventAt(x).login) # {}
              /\ PaymentsFor(FormatDay(d), EventAt(y).login) # {}

EndOfDay == pc = "stepC" /\ i > Len(todays_events)

\* Event k of today is the only event of today for its login.
OnlyEventOfLogin(k) ==
    \A j \in DOMAIN todays_events :
        j # k => todays_events[j].login # todays_events[k].login

(***************************************************************************)
(* C2, as stated: when a NEW_SPONSORSHIP event occurs on a day whose       *)
(* day-of-month equals the billing anchor, the ledger of that day holds    *)
(* exactly one payment for its login, the signup payment.                  *)
(***************************************************************************)
C2_OnePaymentOnSignupDay ==
    (EndOfDay /\ payment_monthday = Some(monthday)) =>
        \A k \in DOMAIN todays_events :
            (todays_events[k].action = "NEW_SPONSORSHIP" /\ OnlyEventOfLogin(k))
                => Cardinality(PaymentsFor(formatted_day, todays_events[k].login)) = 1

(***************************************************************************)
(* C2, amended: when a NEW_SPONSORSHIP event occurs on a day whose         *)
(* day-of-month equals the billing anchor, for a login that has no active  *)
(* subscription when the day begins and no other event that day, the       *)
(* ledger of that day holds exactly one payment for that login, the signup *)
(* payment, and no scheduled payment.                                      *)
(***************************************************************************)
C2_NoDoubleCharge ==
    (EndOfDay /\ payment_monthday = Some(monthday)) =>
        \A k \in DOMAIN todays_events :
            (/\ todays_events[k].action = "NEW_SPONSORSHIP"
             /\ OnlyEventOfLogin(k)
             /\ todays_events[k].login \notin active_at_day_start)
                => /\ Cardinality(PaymentsFor(formatted_day, todays_events[k].login)) = 1
                   /\ \A n \in PaymentsFor(formatted_day, todays_events[k].login) :
                          payments[n].amount_in_cents =
                              todays_events[k].sponsorsTier[1].monthlyPriceInCents

\* A login signs up on a day on which the scheduled charge has charged
\* another login, active since before the day.
C2_Witness ==
    /\ EndOfDay
    /\ payment_monthday = Some(monthday)
    /\ \E k \in DOMAIN todays_events :
           /\ IsSignup(todays_events[k])
           /\ OnlyEventOfLogin(k)
           /\ todays_events[k].login \notin active_at_day_start
           /\ \E other \in active_at_day_start :
                  PaymentsFor(formatted_day, other) # {}

(***************************************************************************)
(* C3: the event that removes the last login of the active map unsets the  *)
(* billing anchor; the anchor then stays unset until the next recurring    *)
(* NEW_SPONSORSHIP, which sets it to its own day-of-month.                 *)
(***************************************************************************)
C3_CancellationClearsAnchor ==
    [][/\ ((CancelledSponsorship \/ TierChange)
              /\ Keys(payment_login_to_amount_map) # {}
              /\ Keys(payment_login_to_amount_map') = {})
           => payment_monthday' = None
       /\ (payment_monthday = None /\ payment_monthday' # None)
           => NewSponsorship /\ IsSignup(todays_events[i])
       /\ (NewSponsorship /\ IsSignup(todays_events[i]) /\ payment_monthday = None)
           => payment_monthday' = Some(monthday)]_vars

\* The place x has been handled by the run.
Handled(x) ==
    \/ pc = "done"
    \/ x[1] < curr_date
    \/ x[1] = curr_date /\ Loop(x) = 1 /\ pc = "stepA" /\ x[2] < i
    \/ x[1] = curr_date /\ Loop(x) = 1 /\ pc = "stepC"
    \/ x[1] = curr_date /\ Loop(x) = 2 /\ pc = "stepC" /\ x[2] < i

\* A signup, the removal of its login while it is the only one active, and
\* a second signup on another day-of-month, which is now the anchor.
C3_Witness ==
    \E x, z, y \in Places :
        /\ IsSignup(EventAt(x)) /\ IsRemoval(EventAt(z)) /\ IsSignup(EventAt(y))
        /\ EventAt(z).login = EventAt(x).login
        /\ HandledBefore(x, z) /\ HandledBefore(z, y) /\ Handled(y)
        /\ \A w \in Places : w \in {x, z, y}
        /\ Day(x[1]) # Day(y[1])
        /\ payment_monthday = Some(Day(y[1]))

RECURSIVE SumAmounts(_)
SumAmounts(ledger) ==
    IF ledger = <<>> THEN 0
    ELSE Head(ledger).amount_in_cents + SumAmounts(Tail(ledger))

\* The monthly billing cycles that begin on the date signup and are over by
\* the date last: the later months whose anniversary of signup (on the last
\* day of a month too short to hold it) is not after last.
FullCycles(signup, last) ==
    Cardinality({m \in (MonthOf(signup) + 1)..MonthOf(last) :
                    DaysBefore(m) + (IF Day(signup) <= MonthLen(m)
                                     THEN Day(signup) ELSE MonthLen(m)) <= last})

(***************************************************************************)
(* C4: for a log of a single recurring NEW_SPONSORSHIP of price p, on any  *)
(* signup day, and a date range that covers the signup day and the N full  *)
(* monthly billing cycles after it, the payments sum to N * p + p.         *)
(***************************************************************************)
C4_Conservation ==
    (pc = "done" /\ Cardinality(Places) = 1) =>
        \A x \in Places :
            IsSignup(EventAt(x)) =>
                SumAmounts(payments) =
                    FullCycles(x[1], end_date)
                        * EventAt(x).sponsorsTier[1].monthlyPriceInCents
                    + EventAt(x).sponsorsTier[1].monthlyPriceInCents

\* A recurring signup of the login is handled after the place z and before
\* today's scheduled charge.
SignsUpAgain(z) ==
    \E y \in Places :
        /\ IsSignup(EventAt(y))
        /\ EventAt(y).login = EventAt(z).login
        /\ HandledBefore(z, y)
        /\ y[1] < curr_date

(***************************************************************************)
(* C5: after a CANCELLED_SPONSORSHIP for a login is handled, no scheduled  *)
(* payment is emitted for that login, on that day or later, until a later  *)
(* recurring NEW_SPONSORSHIP for that login.                               *)
(***************************************************************************)
C5_NoChargeAfterCancel ==
    [][ScheduledCharge =>
          \A z \in Places :
              (IsCancel(EventAt(z)) /\ EventAt(z).login \in Charged)
                  => SignsUpAgain(z)]_vars

(***************************************************************************)
(* C6: a TIER_CHANGE into a one-time tier, for a login with an active      *)
(* recurring subscription, emits exactly one payment (day, login, price)   *)
(* and removes the login from the active map, so that no scheduled payment *)
(* is emitted for that login, on that day or later, absent a later         *)
(* NEW_SPONSORSHIP.                                                        *)
(***************************************************************************)
C6_OneTimeTierChange ==
    [][/\ (/\ TierChange
           /\ IsOneTimeChange(todays_events[i])
           /\ todays_events[i].login \in Keys(payment_login_to_amount_map))
           => /\ payments' = Append(payments,
                     Payment(formatted_day, todays_events[i].login,
                             todays_events[i].sponsorsTier[1].monthlyPriceInCents))
              /\ todays_events[i].login \notin Keys(payment_login_to_amount_map')
       /\ ScheduledCharge =>
              \A z \in Places :
                  (IsOneTimeChange(EventAt(z)) /\ EventAt(z).login \in Charged)
                      => SignsUpAgain(z)]_vars

AtRemovalOfInactive ==
    /\ pc = "stepA"
    /\ i <= Len(todays_events)
    /\ IsRemoval(todays_events[i])
    /\ todays_events[i].login \notin Keys(payment_login_to_amount_map)

\* The step raises exception: the ledger and the schedule stay as they are
\* and nothing is returned.
RaisesHere(exception) ==
    /\ pc' = "raised"
    /\ raised' = Some(exception)
    /\ result' = None
    /\ UNCHANGED <<payments, payment_monthday, payment_login_to_amount_map,
                   curr_date, i>>

(***************************************************************************)
(* C8: a removal (CANCELLED_SPONSORSHIP, or TIER_CHANGE into a one-time    *)
(* tier) of a login the active map does not hold ends the run in an error  *)
(* (Python's KeyError): the run stops at that event, handles no later      *)
(* event or day and returns no ledger.                                     *)
(***************************************************************************)
C8_RemovalOfInactiveFails ==
    /\ [][AtRemovalOfInactive => RaisesHere("KeyError")]_vars
    /\ [](pc = "raised" => (result = None /\ ~ENABLED Next))

\* A run with payments in its ledger has ended in KeyError.
C8_Witness ==
    /\ pc = "raised"
    /\ raised = Some("KeyError")
    /\ payments # <<>>
    /\ IsRemoval(todays_events[i])

SixActions ==
    {"NEW_SPONSORSHIP", "CANCELLED_SPONSORSHIP", "PENDING_CHANGE",
     "SPONSOR_MATCH_DISABLED", "TIER_CHANGE", "REFUND"}

(***************************************************************************)
(* C9, as stated: every event in the date range whose action is not one of *)
(* the six handled kinds ends the run in an error: no run that has read    *)
(* such an event returns a ledger.                                         *)
(***************************************************************************)
C9_UnknownActionFails ==
    pc = "done" => \A x \in Places : EventAt(x).action \in SixActions

\* The run is at an event whose action is not one of the six kinds.
AtUnknownAction ==
    /\ pc \in {"stepA", "stepC"}
    /\ i <= Len(todays_events)
    /\ todays_events[i].action \notin SixActions

(***************************************************************************)
(* C9, amended: an event in the date range whose action is not one of the  *)
(* six handled kinds is skipped by both loops: the ledger and the schedule *)
(* stay as they are, nothing is raised and the run goes on to the next     *)
(* event.                                                                  *)
(***************************************************************************)
C9_UnknownActionSkipped ==
    [][AtUnknownAction =>
          /\ UNCHANGED <<payments, payment_monthday, payment_login_to_amount_map,
                         pc, raised, result, curr_date>>
          /\ i' = i + 1]_vars

\* A run that has read an event of another action has returned a ledger.
C9_Witness ==
    /\ pc = "done"
    /\ payments # <<>>
    /\ \E x \in Places : EventAt(x).action \notin SixActions

\* The run is at an event whose handler reads the tier it does not carry.
AtEventWithoutTier ==
    /\ pc \in {"stepA", "stepC"}
    /\ i <= Len(todays_events)
    /\ todays_events[i].sponsorsTier = None
    /\ \/ pc = "stepA" /\ todays_events[i].action \in {"TIER_CHANGE", "REFUND"}
       \/ pc = "stepC" /\ todays_events[i].action = "NEW_SPONSORSHIP"

(***************************************************************************)
(* C10: a TIER_CHANGE, REFUND or NEW_SPONSORSHIP event in the date range   *)
(* without a tier ends the run in an error (Python's TypeError): no        *)
(* payment is emitted for it, the schedule is not changed by it, and no    *)
(* run that has read such an event returns a ledger.                       *)
(***************************************************************************)
C10_MissingTierFails ==
    /\ [][AtEventWithoutTier => RaisesHere("TypeError")]_vars
    /\ [](pc = "raised" => (result = None /\ ~ENABLED Next))
    /\ [](pc = "done" =>
             \A x \in Places :
                 EventAt(x).action \in {"TIER_CHANGE", "REFUND", "NEW_SPONSORSHIP"}
                     => EventAt(x).sponsorsTier # None)

\* A run has ended in TypeError at a signup without a tier, after the
\* scheduled charge of the day was emitted.
C10_Witness ==
    /\ pc = "raised"
    /\ raised = Some("TypeError")
    /\ todays_events[i].action = "NEW_SPONSORSHIP"
    /\ todays_events[i].sponsorsTier = None
    /\ PaymentsFor(formatted_day, "bob") # {}

(***************************************************************************)
(* The ledger by day.                                                      *)
(***************************************************************************)
\* 'YYYY-MM-DD' strings compare as <<month, day>> pairs do.
DayLeq(a, b) == a[1] < b[1] \/ (a[1] = b[1] /\ a[2] <= b[2])

\* The payments of a ledger dated day, in ledger order.
DaySegment(ledger, day) == SelectSeq(ledger, LAMBDA p : p.date = day)

EmitsInStepA(e) ==
    /\ e.sponsorsTier # None
    /\ \/ e.action = "REFUND"
       \/ e.action = "TIER_CHANGE" /\ e.sponsorsTier[1].isOneTime

\* The payments the first loop emits for the events of date d: one for each
\* one-time tier change and each refund, in the order of the log.
StepAPayments(d) ==
    LET emitting == SelectSeq(EventsOn(d), EmitsInStepA)
    IN [k \in DOMAIN emitting |->
           Payment(FormatDay(d), emitting[k].login,
                   IF emitting[k].action = "REFUND"
                   THEN 0 - emitting[k].sponsorsTier[1].monthlyPriceInCents
                   ELSE emitting[k].sponsorsTier[1].monthlyPriceInCents)]

\* The payments the second loop emits for the events of date d: one for
\* each signup, in the order of the log.
StepCPayments(d) ==
    LET emitting == SelectSeq(EventsOn(d),
                       LAMBDA e : e.action = "NEW_SPONSORSHIP" /\ e.sponsorsTier # None)
    IN [k \in DOMAIN emitting |->
           Payment(FormatDay(d), emitting[k].login,
                   emitting[k].sponsorsTier[1].monthlyPriceInCents)]

\* The payments of date d in the ledger are those of the first loop, then
\* the scheduled ones, then those of the second loop.
StepOrder(ledger, d) ==
    LET seg == DaySegment(ledger, FormatDay(d))
        a == StepAPayments(d)
        c == StepCPayments(d)
    IN /\ Len(seg) >= Len(a) + Len(c)
       /\ SubSeq(seg, 1, Len(a)) = a
       /\ SubSeq(seg, Len(seg) - Len(c) + 1, Len(seg)) = c

(***************************************************************************)
(* C11: the returned ledger is ordered by non-decreasing date, every       *)
(* payment's date lies in [start_date, end_date], and within one day the   *)
(* payments of Step A (one-time tier changes, refunds) come first, then    *)
(* the scheduled payments of Step B, then the signup payments of Step C.   *)
(***************************************************************************)
C11_LedgerOrder ==
    result # None =>
        LET ledger == result[1]
        IN /\ \A k, l \in DOMAIN ledger :
                  k < l => DayLeq(ledger[k].date, ledger[l].date)
           /\ \A k \in DOMAIN ledger :
                  \E d \in start_date..end_date : ledger[k].date = FormatDay(d)
           /\ \A d \in ReadDates : StepOrder(ledger, d)

\* A ledger was returned in which one day holds a payment of each step and
\* another day holds payments too.
C11_Witness ==
    /\ result # None
    /\ \E d \in ReadDates :
          /\ StepAPayments(d) # <<>>
          /\ StepCPayments(d) # <<>>
          /\ Len(DaySegment(result[1], FormatDay(d)))
                 > Len(StepAPayments(d)) + Len(StepCPayments(d))
          /\ \E k \in DOMAIN result[1] : result[1][k].date # FormatDay(d)

(***************************************************************************)
(* C12: make_day_to_events_map partitions the event list by calendar day:  *)
(* the bucket of a day lists exactly the events of that day, each once, in *)
(* the order of the list; a day without events has no bucket; so the       *)
(* buckets are a function of the list, the same each time it is grouped.   *)
(***************************************************************************)
C12_GroupingPartitions ==
    pc = "grouped" =>
        /\ DOMAIN day_to_events_map = {DayOfEvent(events[k]) : k \in DOMAIN events}
        /\ \A day \in DOMAIN day_to_events_map :
               day_to_events_map[day] =
                   SelectSeq(events, LAMBDA e : DayOfEvent(e) = day)

\* A list was grouped in which two events of one day, at different times,
\* stand around an event of an earlier or later day.
C12_Witness ==
    /\ pc = "grouped"
    /\ Len(events) = 3
    /\ DayOfEvent(events[1]) = DayOfEvent(events[3])
    /\ DayOfEvent(events[2]) # DayOfEvent(events[1])
    /\ events[1] # events[3]
    /\ Len(day_to_events_map[DayOfEvent(events[1])]) = 2

(***************************************************************************)
(* C13: after every processed event and at the end of every simulated day, *)
(* for every event log (a recurring TIER_CHANGE for a login that is not    *)
(* active included), the billing anchor is unset if and only if the map of *)
(* active subscriptions is empty.                                          *)
(***************************************************************************)
C13_ScheduleInvariant ==
    (payment_monthday = None) <=> (payment_login_to_amount_map = <<>>)

IsRecurringChange(e) == e.action = "TIER_CHANGE" /\ HasRecurringTier(e)

\* The event sets the amount of its login.
SetsAmount(e) == IsSignup(e) \/ IsRecurringChange(e)

\* The run is between the first loop and the scheduled charge of the day.
AtStepB == pc = "stepA" /\ i > Len(todays_events)

\* The amount the log gives a login at the scheduled charge of the current
\* day: the price of the last event handled so far that sets its amount.
LastAmount(login) ==
    LET setting == {x \in Places :
                       /\ x[1] < curr_date \/ (x[1] = curr_date /\ Loop(x) = 1)
                       /\ EventAt(x).login = login
                       /\ SetsAmount(EventAt(x))}
        last == CHOOSE x \in setting :
                    \A y \in setting \ {x} : HandledBefore(y, x)
    IN EventAt(last).sponsorsTier[1].monthlyPriceInCents

\* The payments this step appends to the ledger.
Emitted == SubSeq(payments', Len(payments) + 1, Len(payments'))

(***************************************************************************)
(* C14: on a day whose day-of-month equals the set billing anchor, Step B  *)
(* emits exactly one payment for each login of the map as it stands after  *)
(* Step A, dated that day, with the login's current amount (that of the    *)
(* last event that set it, also after several signups of the login); on    *)
(* any other day, or with the anchor unset, Step B emits nothing.          *)
(***************************************************************************)
C14_StepB ==
    [][AtStepB =>
          /\ SubSeq(payments', 1, Len(payments)) = payments
          /\ IF payment_monthday = Some(monthday)
             THEN /\ Len(Emitted) = Cardinality(Keys(payment_login_to_amount_map))
                  /\ \A login \in Keys(payment_login_to_amount_map) :
                         \E k \in DOMAIN Emitted :
                             /\ Emitted[k] =
                                    Payment(formatted_day, login, LastAmount(login))
                             /\ LastAmount(login) =
                                    payment_login_to_amount_map[
                                        Get(payment_login_to_amount_map, login)][2]
                             /\ \A j \in DOMAIN Emitted :
                                    Emitted[j].login = login => j = k
             ELSE Emitted = <<>>]_vars

\* Step B has just charged, once, a login that signed up on two earlier
\* days.
C14_Witness ==
    /\ pc = "stepC"
    /\ i = 1
    /\ todays_events = <<>>
    /\ Cardinality(PaymentsFor(formatted_day, "alice")) = 1
    /\ \E x, y \in Places :
          /\ x[1] < y[1]
          /\ IsSignup(EventAt(x)) /\ IsSignup(EventAt(y))
          /\ EventAt(x).login = "alice" /\ EventAt(y).login = "alice"

\* The amount the map holds for a login, None for a login it does not hold.
AmountOf(m, login) ==
    IF login \in Keys(m) THEN Some(m[Get(m, login)][2]) ELSE None

\* The run is at a TIER_CHANGE event with a recurring tier.
AtRecurringChange ==
    /\ pc = "stepA"
    /\ i <= Len(todays_events)
    /\ IsRecurringChange(todays_events[i])

(***************************************************************************)
(* C15: a TIER_CHANGE event with a recurring tier changes only the amount  *)
(* stored for its login: the billing anchor, the set of active logins and  *)
(* the amounts of the other logins are unchanged and the event emits no    *)
(* payment; the new amount is the one the next scheduled charge takes, a   *)
(* scheduled charge on the day of the tier change included.                *)
(***************************************************************************)
C15_RecurringTierChange ==
    /\ [][AtRecurringChange =>
             LET event == todays_events[i]
             IN /\ payment_monthday' = payment_monthday
                /\ Keys(payment_login_to_amount_map')
                       = Keys(payment_login_to_amount_map)
                /\ \A login \in Keys(payment_login_to_amount_map) \ {event.login} :
                       AmountOf(payment_login_to_amount_map', login)
                           = AmountOf(payment_login_to_amount_map, login)
                /\ AmountOf(payment_login_to_amount_map', event.login)
                       = Some(event.sponsorsTier[1].monthlyPriceInCents)
                /\ payments' = payments]_vars
    /\ [][(AtStepB /\ payment_monthday = Some(monthday)) =>
             \A x \in Places :
                 (/\ x[1] = curr_date
                  /\ IsRecurringChange(EventAt(x))
                  /\ \A y \in Places :
                         (y[1] = curr_date /\ x[2] < y[2])
                             => EventAt(y).login # EventAt(x).login)
                     => \E k \in DOMAIN Emitted :
                            Emitted[k] =
                                Payment(formatted_day, EventAt(x).login,
                                    EventAt(x).sponsorsTier[1].monthlyPriceInCents)]_vars

\* The run is at a REFUND event that carries a tier.
AtRefund ==
    /\ pc = "stepA"
    /\ i <= Len(todays_events)
    /\ todays_events[i].action = "REFUND"
    /\ todays_events[i].sponsorsTier # None

(***************************************************************************)
(* C16: a REFUND event on day d emits exactly one payment, (d, login,      *)
(* minus the tier price), and leaves the map of active subscriptions and   *)
(* the billing anchor unchanged, whether or not its login is active; every *)
(* negative amount of the ledger is that of a REFUND event of the log (the *)
(* tier prices being non-negative).                                        *)
(***************************************************************************)
C16_Refund ==
    /\ [][AtRefund =>
             LET event == todays_events[i]
             IN /\ payments' = Append(payments,
                       Payment(formatted_day, event.login,
                               0 - event.sponsorsTier[1].monthlyPriceInCents))
                /\ payment_login_to_amount_map' = payment_login_to_amount_map
                /\ payment_monthday' = payment_monthday]_vars
    /\ [](\A k \in DOMAIN payments :
              payments[k].amount_in_cents < 0 =>
                  \E x \in Places :
                      /\ EventAt(x).action = "REFUND"
                      /\ EventAt(x).sponsorsTier # None
                      /\ payments[k] =
                             Payment(FormatDay(x[1]), EventAt(x).login,
                                 0 - EventAt(x).sponsorsTier[1].monthlyPriceInCents))

\* A login was refunded while active and was charged again on the next
\* anchor day.
C16_Witness ==
    /\ result # None
    /\ \E j, k, l \in DOMAIN payments :
          /\ j < k /\ k < l
          /\ payments[j].login = "alice" /\ payments[j].amount_in_cents = 500
          /\ payments[k].login = "alice" /\ payments[k].amount_in_cents = 0 - 500
          /\ payments[l].login = "alice" /\ payments[l].amount_in_cents = 500
          /\ payments[l].date # payments[k].date
    /\ Cardinality(Places) = 2

(***************************************************************************)
(* C17: Step A runs before Step B: a login whose CANCELLED_SPONSORSHIP     *)
(* event falls on a day whose day-of-month equals the billing anchor       *)
(* receives no scheduled charge on that day, while the logins still active *)
(* are charged that day; if none remains the anchor is unset and nothing   *)
(* is charged.                                                             *)
(***************************************************************************)
C17_CancelBeforeCharge ==
    [][AtStepB =>
          /\ \A x \in Places :
                 (x[1] = curr_date /\ IsCancel(EventAt(x)))
                     => \A k \in DOMAIN Emitted :
                            Emitted[k].login # EventAt(x).login
          /\ payment_monthday = Some(monthday)
                 => \A login \in Keys(payment_login_to_amount_map) :
                        \E k \in DOMAIN Emitted : Emitted[k].login = login
          /\ payment_login_to_amount_map = <<>>
                 => (payment_monthday = None /\ Emitted = <<>>)]_vars

\* The run is at a NEW_SPONSORSHIP event that carries a tier.
AtNewSponsorship ==
    /\ pc = "stepC"
    /\ i <= Len(todays_events)
    /\ todays_events[i].action = "NEW_SPONSORSHIP"
    /\ todays_events[i].sponsorsTier # None

(***************************************************************************)
(* C18: every NEW_SPONSORSHIP event emits exactly one immediate payment,   *)
(* (d, login, tier price), whatever the kind of its tier; with a one-time  *)
(* tier the map of active subscriptions and the billing anchor are left    *)
(* unchanged; with a recurring tier the login is added with the tier price *)
(* and the anchor is set to d's day-of-month only if it was unset.  The    *)
(* returned ledger holds the payment of every signup of the log.           *)
(***************************************************************************)
C18_NewSponsorship ==
    /\ [][AtNewSponsorship =>
             LET event == todays_events[i]
                 price == event.sponsorsTier[1].monthlyPriceInCents
             IN /\ payments' = Append(payments,
                                      Payment(formatted_day, event.login, price))
                /\ event.sponsorsTier[1].isOneTime
                       => /\ payment_login_to_amount_map' = payment_login_to_amount_map
                          /\ payment_monthday' = payment_monthday
                /\ ~event.sponsorsTier[1].isOneTime
                       => /\ Keys(payment_login_to_amount_map')
                                 = Keys(payment_login_to_amount_map) \cup {event.login}
                          /\ AmountOf(payment_login_to_amount_map', event.login)
                                 = Some(price)
                          /\ \A login \in Keys(payment_login_to_amount_map) \ {event.login} :
                                 AmountOf(payment_login_to_amount_map', login)
                                     = AmountOf(payment_login_to_amount_map, login)
                          /\ payment_monthday' =
                                 IF payment_monthday = None
                                 THEN Some(monthday) ELSE payment_monthday]_vars
    /\ [](result # None =>
             \A d \in ReadDates :
                 LET seg == DaySegment(result[1], FormatDay(d))
                     c == StepCPayments(d)
                 IN /\ Len(c) = Cardinality({k \in DOMAIN EventsOn(d) :
                                   EventsOn(d)[k].action = "NEW_SPONSORSHIP"})
                    /\ Len(seg) >= Len(c)
                    /\ SubSeq(seg, Len(seg) - Len(c) + 1, Len(seg)) = c)

\* A ledger was returned for a log of a one-time signup and a later
\* recurring signup of another login on another day-of-month: the one-time
\* login was charged once, the other was charged again on its own anchor.
C18_Witness ==
    /\ result # None
    /\ \E x, y \in Places :
          /\ EventAt(x).action = "NEW_SPONSORSHIP" /\ HasOneTimeTier(EventAt(x))
          /\ IsSignup(EventAt(y))
          /\ x[1] < y[1]
          /\ Day(x[1]) # Day(y[1])
          /\ Places = {x, y}
          /\ payment_monthday = Some(Day(y[1]))
          /\ Cardinality({k \in DOMAIN payments :
                             payments[k].login = EventAt(x).login}) = 1
          /\ Cardinality({k \in DOMAIN payments :
                             payments[k].login = EventAt(y).login}) = 2

\* The order of the log: by day, within a day by position.
LogBefore(x, y) == x[1] < y[1] \/ (x[1] = y[1] /\ x[2] < y[2])

\* Every event that removes a login (a cancellation, or a tier change into
\* a one-time tier) comes, in the order of the log, after a recurring
\* signup of the login with no removal of the login between the two.
WellFormedLog ==
    \A x \in Places :
        IsRemoval(EventAt(x)) =>
            \E y \in Places :
                /\ IsSignup(EventAt(y))
                /\ EventAt(y).login = EventAt(x).login
                /\ LogBefore(y, x)
                /\ \A z \in Places :
                       (IsRemoval(EventAt(z)) /\ EventAt(z).login = EventAt(x).login)
                           => ~(LogBefore(y, z) /\ LogBefore(z, x))

(***************************************************************************)
(* C19: for every event log in which, reading the events by day and in log *)
(* order within a day, each cancellation of a login comes after a          *)
(* recurring signup of that login that has not been cancelled since (a     *)
(* signup earlier on the day of the cancellation included), the run does   *)
(* not fail on a login missing from the map of active subscriptions.       *)
(***************************************************************************)
C19_WellFormedNeverFails == WellFormedLog => raised # Some("KeyError")

(***************************************************************************)
(* C20: the scheduled charge fires only on a day whose day-of-month equals *)
(* the anchor, with no clamping and no catch-up: under an anchor that the  *)
(* current month is too short to hold, no day of the month emits a         *)
(* scheduled payment for any login; and the schedule (anchor and amounts)  *)
(* changes only when an event is handled, so a month that is skipped       *)
(* leaves it as it was.                                                    *)
(***************************************************************************)
C20_ShortMonths ==
    /\ [][(AtStepB /\ Emitted # <<>>) => payment_monthday = Some(monthday)]_vars
    /\ [][(/\ AtStepB
           /\ payment_monthday # None
           /\ payment_monthday[1] > MonthLen(MonthOf(curr_date)))
              => Emitted = <<>>]_vars
    /\ [][(\/ payment_monthday' # payment_monthday
           \/ payment_login_to_amount_map' # payment_login_to_amount_map)
              => (pc \in {"stepA", "stepC"} /\ i <= Len(todays_events))]_vars

\* A ledger was returned for a login anchored on the last day of a long
\* month: the short month that followed holds no payment, the long month
\* after it holds the scheduled one, and the schedule is as the signup left
\* it.
C20_Witness ==
    /\ result # None
    /\ payment_monthday = Some(LongMonth)
    /\ payment_login_to_amount_map = <<<<"alice", 500>>>>
    /\ Cardinality(Places) = 1
    /\ \A k \in DOMAIN payments : payments[k].date[1] # 2
    /\ \E k \in DOMAIN payments : payments[k].date = <<1, LongMonth>>
    /\ \E k \in DOMAIN payments : payments[k].date = <<3, LongMonth>>

====
